---- MODULE Spec2Model ----
(***************************************************************************)
(* A model of the MCP quickstart client (src/client.py): the MCPClient     *)
(* class (connect / call_tool / cleanup over an AsyncExitStack), the CLI   *)
(* helpers _coerce and _parse_cli_params, and the entry point _main.       *)
(*                                                                         *)
(* Python strings are sequences of one-character strings, so that lower(), *)
(* rstrip(), endswith(), split() and the regular expressions are computed  *)
(* character by character as the interpreter computes them.                *)
(***************************************************************************)
EXTENDS Integers, Sequences, FiniteSets, TLC

VARIABLES
    argv,        \* sys.argv of the run
    pc,          \* position of _main
    target,      \* _main's local `target`
    tool,        \* _main's local `tool`
    params,      \* _main's local `params`
    status,      \* exit status of the process ("running" until it exits)
    client,      \* TRUE once MCPClient() has been constructed
    exit_stack,  \* MCPClient.exit_stack: the registered resources, oldest first
    session,     \* MCPClient.session: 0 is None, else the session's id
    cpc,         \* the await a client method is suspended at ("idle": none)
    err,         \* the exception the last client method raised ("none": returned)
    log,         \* the transport operations attempted so far, with their outcome
    stdout,      \* the lines printed so far
    open,        \* the resources entered and not yet exited
    nres,        \* the number of resources entered so far
    cleanups,    \* the number of cleanup() invocations so far
    connected,   \* TRUE once some connect() has returned normally
    nops,        \* the number of client methods invoked so far
    value,       \* the argument of _coerce under test
    tokens,      \* the argument of _parse_cli_params under test
    ret          \* what the function under test returned ("pending": not called)

mainVars    == <<argv, pc, target, tool, params, status, client>>
clientVars  == <<exit_stack, session, cpc, err, log, stdout, open, nres,
                 cleanups, connected, nops>>
harnessVars == <<value, tokens, ret>>
vars        == <<mainVars, clientVars, harnessVars>>

----------------------------------------------------------------------------
(* Bounds of the model. *)

\* longest string over CoerceAlphabet given to _coerce
MaxLen == 3
\* longest token list given to _parse_cli_params
MaxTokens == 3
\* most trailing slashes appended to a target
MaxSlashes == 2
\* most client methods invoked on one client instance by an API caller
MaxOps == 3

----------------------------------------------------------------------------
(* Python str helpers. *)

UpperChars == <<"A","B","C","D","E","F","G","H","I","J","K","L","M",
                "N","O","P","Q","R","S","T","U","V","W","X","Y","Z">>
LowerChars == <<"a","b","c","d","e","f","g","h","i","j","k","l","m",
                "n","o","p","q","r","s","t","u","v","w","x","y","z">>
DigitChars == <<"0","1","2","3","4","5","6","7","8","9">>

Range(s) == {s[i] : i \in DOMAIN s}

IsDigit(c)  == c \in Range(DigitChars)
IsAlpha(c)  == c \in Range(UpperChars) \cup Range(LowerChars)

DigitVal(c) == (CHOOSE i \in DOMAIN DigitChars : DigitChars[i] = c) - 1

LowerChar(c) ==
    IF c \in Range(UpperChars)
    THEN LowerChars[CHOOSE i \in DOMAIN UpperChars : UpperChars[i] = c]
    ELSE c

\* str.lower()
lower(s) == [i \in DOMAIN s |-> LowerChar(s[i])]

\* str.endswith(suffix)
endswith(s, suffix) ==
    /\ Len(suffix) <= Len(s)
    /\ SubSeq(s, Len(s) - Len(suffix) + 1, Len(s)) = suffix

\* str.rstrip(c) for a single character c: every trailing c is removed
RECURSIVE rstrip(_, _)
rstrip(s, c) ==
    IF Len(s) > 0 /\ s[Len(s)] = c THEN rstrip(SubSeq(s, 1, Len(s) - 1), c) ELSE s

\* str.lstrip(c) for a single character c
RECURSIVE lstrip(_, _)
lstrip(s, c) ==
    IF Len(s) > 0 /\ s[1] = c THEN lstrip(Tail(s), c) ELSE s

\* str.find(c): the 1-based index of the first c, 0 when there is none
\* (Python's 0-based find returns -1 when there is none)
find(s, c) ==
    IF c \in Range(s) THEN CHOOSE i \in DOMAIN s : s[i] = c /\ \A j \in 1..(i-1) : s[j] # c
    ELSE 0

----------------------------------------------------------------------------
(* Python values: bool, None, int, float, str.  One record shape for all, so *)
(* that any two values can be compared.  A float parsed from a decimal       *)
(* literal is kept exactly: sign, the digits with the trailing zeros of the  *)
(* fraction dropped, and the number of fraction digits left.                 *)

PyBool(b)          == [t |-> "bool",  b |-> b,     n |-> 0, k |-> 0, s |-> <<>>]
PyNone             == [t |-> "None",  b |-> FALSE, n |-> 0, k |-> 0, s |-> <<>>]
PyInt(n)           == [t |-> "int",   b |-> FALSE, n |-> n, k |-> 0, s |-> <<>>]
PyFloat(neg, m, k) == [t |-> "float", b |-> neg,   n |-> m, k |-> k, s |-> <<>>]
PyStr(s)           == [t |-> "str",   b |-> FALSE, n |-> 0, k |-> 0, s |-> s]

\* the value of a run of decimal digits, read left to right
RECURSIVE DigitsValue(_, _)
DigitsValue(s, acc) ==
    IF s = <<>> THEN acc ELSE DigitsValue(Tail(s), 10 * acc + DigitVal(Head(s)))

\* int(value) for a string that matched -?\d+
int(s) ==
    IF s[1] = "-" THEN 0 - DigitsValue(Tail(s), 0) ELSE DigitsValue(s, 0)

\* float(value) for a string that matched -?\d+\.\d*
float(s) ==
    LET neg  == s[1] = "-"
        body == IF neg THEN Tail(s) ELSE s
        dot  == find(body, ".")
        frac == rstrip(SubSeq(body, dot + 1, Len(body)), "0")
    IN  PyFloat(neg, DigitsValue(SubSeq(body, 1, dot - 1) \o frac, 0), Len(frac))

----------------------------------------------------------------------------
(* re.fullmatch for the two patterns of _coerce, as the matcher scans. *)

\* the index after an optional leading "-", starting at 1
SkipMinus(s) == IF Len(s) > 0 /\ s[1] = "-" THEN 2 ELSE 1

\* the index after the longest run of digits starting at i
RECURSIVE SkipDigits(_, _)
SkipDigits(s, i) ==
    IF i <= Len(s) /\ IsDigit(s[i]) THEN SkipDigits(s, i + 1) ELSE i

\* re.fullmatch(r"-?\d+", s)
FullMatchInt(s) ==
    LET i == SkipMinus(s)
        j == SkipDigits(s, i)
    IN  j > i /\ j = Len(s) + 1

\* a plausible slip: the fraction needs a digit (-?\d+\.\d+)
FullMatchDecimal_fracRequired(s) ==
    LET i == SkipMinus(s)
        j == SkipDigits(s, i)
    IN  /\ j > i
        /\ j <= Len(s)
        /\ s[j] = "."
        /\ SkipDigits(s, j + 1) = Len(s) + 1
        /\ j < Len(s)

\* re.fullmatch(r"-?\d+\.\d*", s)
FullMatchDecimal(s) ==
    LET i == SkipMinus(s)
        j == SkipDigits(s, i)
    IN  /\ j > i
        /\ j <= Len(s)
        /\ s[j] = "."
        /\ SkipDigits(s, j + 1) = Len(s) + 1

S_true  == <<"t","r","u","e">>
S_false == <<"f","a","l","s","e">>
S_null  == <<"n","u","l","l">>
S_none  == <<"n","o","n","e">>

\* _coerce(value)
_coerce(v) ==
    IF lower(v) \in {S_true, S_false} THEN PyBool(lower(v) = S_true)
    ELSE IF lower(v) \in {S_null, S_none} THEN PyNone
    ELSE IF FullMatchInt(v) THEN PyInt(int(v))
    ELSE IF FullMatchDecimal(v) THEN float(v)
    ELSE PyStr(v)

----------------------------------------------------------------------------
(* Inputs of _coerce: every string of at most MaxLen characters over a small *)
(* alphabet, and the keywords and examples in several spellings.             *)

CoerceAlphabet == {"-", "1", "0", ".", "a"}

RECURSIVE StringsUpTo(_, _)
StringsUpTo(alphabet, n) ==
    IF n = 0 THEN {<<>>}
    ELSE LET shorter == StringsUpTo(alphabet, n - 1)
         IN  shorter \cup {Append(s, c) : s \in shorter, c \in alphabet}

CoerceExamples ==
    { S_true, S_false, S_null, S_none,
      <<"T","R","U","E">>, <<"F","A","L","S","E">>, <<"T","r","u","e">>,
      <<"N","o","n","e">>, <<"N","U","L","L">>, <<"n","U","l","L">>,
      <<"t","r","u","e","1">>, <<"n","i","l">>, <<"a","b","c">>,
      <<"-","4","2">>, <<"-","3",".","1","4">>, <<"3",".">>, <<"3",".","1","0">>,
      <<"1","e","5">>, <<"+","1">>, <<"1",".","2",".","3">>, <<" ","1">> }

CoerceInputs == StringsUpTo(CoerceAlphabet, MaxLen) \cup CoerceExamples

\* the harness's "not called yet"
Pending == [t |-> "pending", b |-> FALSE, n |-> 0, k |-> 0, s |-> <<>>]

----------------------------------------------------------------------------
(* States shared by the specifications: the parts a specification does not *)
(* exercise stay as constructed.                                           *)

ClientInit ==
    /\ exit_stack = <<>>
    /\ session = 0
    /\ cpc = "idle"
    /\ err = "none"
    /\ log = <<>>
    /\ stdout = <<>>
    /\ open = {}
    /\ nres = 0
    /\ cleanups = 0
    /\ connected = FALSE
    /\ nops = 0

MainIdle ==
    /\ argv = <<>>
    /\ pc = "none"
    /\ target = <<>>
    /\ tool = [t |-> "None", b |-> FALSE, n |-> 0, k |-> 0, s |-> <<>>]
    /\ params = <<>>
    /\ status = "running"
    /\ client = FALSE

HarnessIdle ==
    /\ value = <<>>
    /\ tokens = <<>>
    /\ ret = Pending

----------------------------------------------------------------------------
(* SpecCoerce: _coerce applied to one input. *)

InitCoerce ==
    /\ value \in CoerceInputs
    /\ tokens = <<>>
    /\ ret = Pending
    /\ MainIdle
    /\ ClientInit

Coerce ==
    /\ ret.t = "pending"
    /\ ret' = _coerce(value)
    /\ UNCHANGED <<value, tokens, mainVars, clientVars>>

NextCoerce == Coerce

SpecCoerce == InitCoerce /\ [][NextCoerce]_vars

----------------------------------------------------------------------------
(* The rules of the coercer, stated on the shape of the whole string. *)

UpperOf(c) ==
    IF c \in Range(LowerChars)
    THEN UpperChars[CHOOSE i \in DOMAIN LowerChars : LowerChars[i] = c]
    ELSE c

SpellsIgnoringCase(s, word) ==
    /\ Len(s) = Len(word)
    /\ \A i \in DOMAIN s : s[i] \in {word[i], UpperOf(word[i])}

Unsigned(s) == IF s # <<>> /\ s[1] = "-" THEN Tail(s) ELSE s

AllDigits(s) == \A i \in DOMAIN s : s[i] \in {"0","1","2","3","4","5","6","7","8","9"}

LooksInteger(s) == Unsigned(s) # <<>> /\ AllDigits(Unsigned(s))

\* the position of the dot in an unsigned decimal literal, 0 when it is none
DecimalDot(b) ==
    IF \E p \in DOMAIN b :
          /\ b[p] = "."
          /\ p > 1
          /\ AllDigits(SubSeq(b, 1, p - 1))
          /\ AllDigits(SubSeq(b, p + 1, Len(b)))
    THEN CHOOSE p \in DOMAIN b : b[p] = "."
    ELSE 0

LooksDecimal(s) == DecimalDot(Unsigned(s)) # 0

RECURSIVE Pow10(_)
Pow10(n) == IF n = 0 THEN 1 ELSE 10 * Pow10(n - 1)

\* the number a run of digits denotes: the sum of digit * 10^place
RECURSIVE Magnitude(_)
Magnitude(d) ==
    IF d = <<>> THEN 0
    ELSE DigitVal(d[1]) * Pow10(Len(d) - 1) + Magnitude(Tail(d))

CoerceRule(s, r) ==
    IF SpellsIgnoringCase(s, S_true) THEN r = PyBool(TRUE)
    ELSE IF SpellsIgnoringCase(s, S_false) THEN r = PyBool(FALSE)
    ELSE IF SpellsIgnoringCase(s, S_null) \/ SpellsIgnoringCase(s, S_none) THEN r = PyNone
    ELSE IF LooksInteger(s)
         THEN r = PyInt(IF s[1] = "-" THEN 0 - Magnitude(Tail(s)) ELSE Magnitude(s))
    ELSE IF LooksDecimal(s)
         THEN LET b    == Unsigned(s)
                  p    == DecimalDot(b)
                  whole == SubSeq(b, 1, p - 1)
                  frac == SubSeq(b, p + 1, Len(b))
              IN  /\ r.t = "float"
                  /\ r.b = (s[1] = "-")
                  /\ r.s = <<>>
                  \* r.n / 10^r.k = (whole.frac) as a fraction
                  /\ r.n * Pow10(Len(frac)) = Magnitude(whole \o frac) * Pow10(r.k)
    ELSE r = PyStr(s)

----------------------------------------------------------------------------
(* _parse_cli_params.  A dict is the sequence of its items in insertion     *)
(* order; assigning to a key that is present keeps the key's place.         *)

DictKeys(d) == {d[i].k : i \in DOMAIN d}

DictGet(d, k) == d[CHOOSE i \in DOMAIN d : d[i].k = k].v

\* a plausible slip: the first value given for a key is kept
DictSet_keepFirst(d, k, v) ==
    IF k \in DictKeys(d) THEN d ELSE Append(d, [k |-> k, v |-> v])

\* params[k] = v
DictSet(d, k, v) ==
    IF k \in DictKeys(d)
    THEN [i \in DOMAIN d |-> IF d[i].k = k THEN [k |-> k, v |-> v] ELSE d[i]]
    ELSE Append(d, [k |-> k, v |-> v])

ParseReturn(tl, ps) == [kind |-> "return",     tool |-> tl,     params |-> ps,   bad |-> <<>>]
ParseExit(t)        == [kind |-> "SystemExit", tool |-> PyNone, params |-> <<>>, bad |-> t]
ParsePending        == [kind |-> "pending",    tool |-> PyNone, params |-> <<>>, bad |-> <<>>]

\* the loop of _parse_cli_params over tokens[1:]
RECURSIVE ParseLoop(_, _, _)
ParseLoop(tl, ts, ps) ==
    IF ts = <<>> THEN ParseReturn(tl, ps)
    ELSE LET t == Head(ts)
         IN  IF "=" \notin Range(t) THEN ParseExit(t)
             ELSE LET i == find(t, "=")
                      k == SubSeq(t, 1, i - 1)
                      v == SubSeq(t, i + 1, Len(t))
                  IN  ParseLoop(tl, Tail(ts), DictSet(ps, k, _coerce(v)))

\* _parse_cli_params(tokens)
_parse_cli_params(ts) ==
    IF ts = <<>> THEN ParseReturn(PyNone, <<>>)
    ELSE ParseLoop(PyStr(ts[1]), Tail(ts), <<>>)

----------------------------------------------------------------------------
(* Inputs of _parse_cli_params: every list of at most MaxTokens tokens. *)

T_add == <<"a","d","d">>
T_a1  == <<"a","=","1">>
T_b2  == <<"b","=","2">>
T_a2  == <<"a","=","2">>
T_bad == <<"b","a","d">>

ParseTokens ==
    { T_add, T_a1, T_b2, T_a2, T_bad,
      <<"a","=","b","=","c">>, <<"=">>, <<"x","=","T","r","u","e">>, <<>> }

TokenLists == StringsUpTo(ParseTokens, MaxTokens)

----------------------------------------------------------------------------
(* SpecParse: _parse_cli_params applied to one token list. *)

InitParse ==
    /\ tokens \in TokenLists
    /\ value = <<>>
    /\ ret = ParsePending
    /\ MainIdle
    /\ ClientInit

Parse ==
    /\ ret.kind = "pending"
    /\ ret' = _parse_cli_params(tokens)
    /\ UNCHANGED <<value, tokens, mainVars, clientVars>>

NextParse == Parse

SpecParse == InitParse /\ [][NextParse]_vars

----------------------------------------------------------------------------
(* The parser's contract, stated on the token list as a whole. *)

HasEquals(t) == \E i \in DOMAIN t : t[i] = "="

\* the text before the first "="
KeyOf(t) ==
    LET p == CHOOSE i \in DOMAIN t : t[i] = "=" /\ \A j \in 1..(i - 1) : t[j] # "="
    IN  SubSeq(t, 1, p - 1)

\* the text after the first "="
RestOf(t) ==
    LET p == CHOOSE i \in DOMAIN t : t[i] = "=" /\ \A j \in 1..(i - 1) : t[j] # "="
    IN  SubSeq(t, p + 1, Len(t))

Later(ts) == 2..Len(ts)

----------------------------------------------------------------------------
(* MCPClient.connect: the classification of the target (lines 48-58). *)

S_http  == <<"h","t","t","p">>
S_https == <<"h","t","t","p","s">>
S_sse   == <<"/","s","s","e">>
S_mcp   == <<"/","m","c","p">>
S_py    == <<".","p","y">>
S_js    == <<".","j","s">>

\* urllib.parse.scheme_chars
IsSchemeChar(c) == IsAlpha(c) \/ IsDigit(c) \/ c \in {"+", "-", "."}

\* what urlsplit works on: leading spaces are stripped (the targets of the
\* model hold no other control character)
UrlStripped(url) == lstrip(url, " ")

\* urlsplit's test for a scheme: a ":" after the first character, an ASCII
\* letter first, and only scheme characters before the ":"
UrlHasScheme(url) ==
    LET u == UrlStripped(url)
        i == find(u, ":")
    IN  /\ i > 1
        /\ IsAlpha(u[1])
        /\ \A j \in 1..(i - 1) : IsSchemeChar(u[j])

\* urlparse(target).scheme
UrlScheme(url) ==
    LET u == UrlStripped(url)
    IN  IF UrlHasScheme(url) THEN lower(SubSeq(u, 1, find(u, ":") - 1)) ELSE <<>>

\* the index after the network location that starts at i: it runs to the first
\* of "/", "?", "#"
RECURSIVE NetlocEnd(_, _)
NetlocEnd(u, i) ==
    IF i <= Len(u) /\ u[i] \notin {"/", "?", "#"} THEN NetlocEnd(u, i + 1) ELSE i

\* urlparse(target) raises ValueError("Invalid IPv6 URL"): the network location
\* holds one bracket without the other
UrlRaises(url) ==
    LET u    == UrlStripped(url)
        rest == IF UrlHasScheme(url) THEN SubSeq(u, find(u, ":") + 1, Len(u)) ELSE u
    IN  /\ Len(rest) >= 2
        /\ SubSeq(rest, 1, 2) = <<"/", "/">>
        /\ LET netloc == SubSeq(rest, 3, NetlocEnd(rest, 3) - 1)
           IN  ("[" \in Range(netloc)) # ("]" \in Range(netloc))

E_url     == "ValueError: Invalid IPv6 URL"
E_remote  == "ValueError: Remote URL must end with /sse or /mcp"
E_target  == "ValueError: Target must be .py/.js script or URL ending in /sse or /mcp"
E_session == "RuntimeError: Session not initialised"
E_attr    == "AttributeError: 'text'"
E_io      == "TransportError"
E_cancel  == "CancelledError"
E_exit    == "ExitCallbackError"

TransportKinds == {"stdio:python", "stdio:node", "sse", "streamable"}

\* a plausible slip: only one trailing slash is ignored, and only for /sse
Classify_oneSlash(t) ==
    IF UrlRaises(t) THEN E_url
    ELSE IF UrlScheme(t) \in {S_http, S_https}
         THEN IF endswith(t, S_sse) \/ endswith(t, S_sse \o <<"/">>) THEN "sse"
              ELSE IF endswith(t, S_mcp) THEN "streamable"
              ELSE E_remote
    ELSE IF endswith(t, S_py) THEN "stdio:python"
    ELSE IF endswith(t, S_js) THEN "stdio:node"
    ELSE E_target

\* the branch connect(target) takes: the transport it opens (for stdio, with
\* the interpreter _connect_stdio chooses), or the error it raises
Classify(t) ==
    IF UrlRaises(t) THEN E_url
    ELSE IF UrlScheme(t) \in {S_http, S_https}
         THEN IF endswith(rstrip(t, "/"), S_sse) THEN "sse"
              ELSE IF endswith(rstrip(t, "/"), S_mcp) THEN "streamable"
              ELSE E_remote
    ELSE IF endswith(t, S_py) THEN "stdio:python"
    ELSE IF endswith(t, S_js) THEN "stdio:node"
    ELSE E_target

----------------------------------------------------------------------------
(* The client's state changes.  An await of the library ends in one of three *)
(* ways: it returns, it raises, or the task is cancelled there (an           *)
(* interrupt).                                                               *)

Outcomes == {"ok", "fail", "interrupt"}

Raised(r) == IF r = "fail" THEN E_io ELSE E_cancel

Entry(op, kind)  == [op |-> op, kind |-> kind, flag |-> FALSE, res |-> "pending"]

\* the log with its last entry completed
Completed(r)          == [log EXCEPT ![Len(log)].res = r]
CompletedWith(r, k, f) ==
    [log EXCEPT ![Len(log)] = [op |-> @.op, kind |-> k, flag |-> f, res |-> r]]

Resource(id, kind) == [id |-> id, kind |-> kind]

\* MCPClient.connect(target), to its first await (lines 48-58 and 31-34,
\* 37-38, 41-43)
connect(t) ==
    /\ cpc = "idle"
    /\ nops' = nops + 1
    /\ IF Classify(t) \in TransportKinds
       THEN /\ cpc' = "open"
            /\ err' = "none"
            /\ log' = Append(log, Entry("open", Classify(t)))
       ELSE /\ cpc' = "idle"
            /\ err' = Classify(t)
            /\ log' = log
    /\ UNCHANGED <<exit_stack, session, stdout, open, nres, cleanups, connected>>

\* exit_stack.enter_async_context(<transport>) returns or raises (lines 34,
\* 38, 42); on return _bootstrap starts and constructs the ClientSession
AwaitOpen ==
    /\ cpc = "open"
    /\ \E r \in Outcomes :
          /\ log' = Completed(r)
          /\ IF r = "ok"
             THEN /\ nres' = nres + 1
                  /\ exit_stack' = Append(exit_stack, Resource(nres + 1, "transport"))
                  /\ open' = open \cup {Resource(nres + 1, "transport")}
                  /\ cpc' = "session"
                  /\ err' = err
             ELSE /\ err' = Raised(r)
                  /\ cpc' = "idle"
                  /\ UNCHANGED <<nres, exit_stack, open>>
    /\ UNCHANGED <<session, stdout, cleanups, connected, nops>>
    /\ UNCHANGED <<mainVars, harnessVars>>

\* self.session = await exit_stack.enter_async_context(ClientSession(...))
\* (line 24); on return session.initialize() is sent (line 27)
AwaitSession ==
    /\ cpc = "session"
    /\ \E r \in Outcomes :
          IF r = "ok"
          THEN /\ nres' = nres + 1
               /\ exit_stack' = Append(exit_stack, Resource(nres + 1, "session"))
               /\ open' = open \cup {Resource(nres + 1, "session")}
               /\ session' = nres + 1
               /\ log' = Append(log, Entry("initialize", "-"))
               /\ cpc' = "initialize"
               /\ err' = err
          ELSE /\ err' = Raised(r)
               /\ cpc' = "idle"
               /\ UNCHANGED <<nres, exit_stack, open, session, log>>
    /\ UNCHANGED <<stdout, cleanups, connected, nops>>
    /\ UNCHANGED <<mainVars, harnessVars>>

\* a plausible slip: a failed handshake is swallowed and the listing goes on
AwaitInitialize_swallow ==
    /\ cpc = "initialize"
    /\ \E r \in Outcomes :
          /\ log' = Append(Completed(r), Entry("list_tools", "-"))
          /\ cpc' = "list_tools"
          /\ err' = err
    /\ UNCHANGED <<exit_stack, session, stdout, open, nres, cleanups, connected, nops>>
    /\ UNCHANGED <<mainVars, harnessVars>>

\* await self.session.initialize() (line 27); on return list_tools() is sent
\* (line 28)
AwaitInitialize ==
    /\ cpc = "initialize"
    /\ \E r \in Outcomes :
          IF r = "ok"
          THEN /\ log' = Append(Completed(r), Entry("list_tools", "-"))
               /\ cpc' = "list_tools"
               /\ err' = err
          ELSE /\ log' = Completed(r)
               /\ err' = Raised(r)
               /\ cpc' = "idle"
    /\ UNCHANGED <<exit_stack, session, stdout, open, nres, cleanups, connected, nops>>
    /\ UNCHANGED <<mainVars, harnessVars>>

\* the tool lists a server may answer with
ToolLists == {"none", "add"}

\* await self.session.list_tools() and the print (lines 28-29); connect returns
AwaitListTools ==
    /\ cpc = "list_tools"
    /\ \E r \in Outcomes :
          IF r = "ok"
          THEN /\ \E tl \in ToolLists :
                     /\ log' = CompletedWith(r, tl, FALSE)
                     /\ stdout' = Append(stdout, "Connected: " \o tl)
               /\ connected' = TRUE
               /\ err' = "none"
               /\ cpc' = "idle"
          ELSE /\ log' = Completed(r)
               /\ err' = Raised(r)
               /\ cpc' = "idle"
               /\ UNCHANGED <<stdout, connected>>
    /\ UNCHANGED <<exit_stack, session, open, nres, cleanups, nops>>
    /\ UNCHANGED <<mainVars, harnessVars>>

\* MCPClient.call_tool(name, params), to its await (lines 60-64)
call_tool(name, ps) ==
    /\ cpc = "idle"
    /\ nops' = nops + 1
    /\ IF session = 0
       THEN /\ err' = E_session
            /\ UNCHANGED <<cpc, log, stdout>>
       ELSE /\ err' = "none"
            /\ stdout' = Append(stdout, "Calling")
            /\ log' = Append(log, Entry("call_tool", "-"))
            /\ cpc' = "call"
    /\ UNCHANGED <<exit_stack, session, open, nres, cleanups, connected>>

\* the shapes of a result object: whether it has a `content` attribute and what
\* that holds (None, an empty list, a list whose first item has a `text`, a
\* list whose first item has none), and whether it has a `text` attribute
ContentForms == {"no content", "content=None", "content=[]",
                 "content[0].text", "content[0] without text"}

\* hasattr(result, "content") and result.content
ContentTruthy(form) == form \in {"content[0].text", "content[0] without text"}

\* result = await self.session.call_tool(...) and the prints (lines 64-71)
AwaitCallTool ==
    /\ cpc = "call"
    /\ cpc' = "idle"
    /\ \E r \in Outcomes :
          IF r = "ok"
          THEN \E form \in ContentForms, has_text \in BOOLEAN :
                  /\ log' = CompletedWith(r, form, has_text)
                  /\ IF ContentTruthy(form)
                     THEN IF form = "content[0].text"
                          THEN /\ stdout' = Append(stdout, "Result: content[0].text")
                               /\ err' = err
                          ELSE /\ stdout' = stdout
                               /\ err' = E_attr
                     ELSE IF has_text
                          THEN /\ stdout' = Append(stdout, "Result: text")
                               /\ err' = err
                          ELSE /\ stdout' = Append(stdout, "Result object")
                               /\ err' = err
          ELSE /\ log' = Completed(r)
               /\ err' = Raised(r)
               /\ stdout' = stdout
    /\ UNCHANGED <<exit_stack, session, open, nres, cleanups, connected, nops>>
    /\ UNCHANGED <<mainVars, harnessVars>>

\* a plausible slip: only the resource registered last is released
cleanup_topOnly(fails, exc) ==
    /\ cpc = "idle"
    /\ nops' = nops + 1
    /\ cleanups' = cleanups + 1
    /\ exit_stack' = <<>>
    /\ open' = IF exit_stack = <<>> THEN open ELSE open \ {exit_stack[Len(exit_stack)]}
    /\ err' = IF fails THEN E_exit ELSE exc
    /\ UNCHANGED <<session, cpc, log, stdout, nres, connected>>

\* MCPClient.cleanup(): exit_stack.aclose() runs every exit callback, last
\* registered first, also when one of them raises (`fails`); it re-raises at
\* the end, else the exception in flight around the call (`exc`) stays
cleanup(fails, exc) ==
    /\ cpc = "idle"
    /\ nops' = nops + 1
    /\ cleanups' = cleanups + 1
    /\ exit_stack' = <<>>
    /\ open' = open \ Range(exit_stack)
    /\ err' = IF fails THEN E_exit ELSE exc
    /\ UNCHANGED <<session, cpc, log, stdout, nres, connected>>

----------------------------------------------------------------------------
(* Targets: an optional scheme, an optional network location, a path, and up *)
(* to MaxSlashes trailing slashes; and the examples of the specification.    *)

Schemes ==
    { <<>>, S_http \o <<":">>, S_https \o <<":">>, <<"H","T","T","P",":">>,
      <<"f","t","p",":">> }

Netlocs == { <<>>, <<"/","/","h">>, <<"/","/","[">> }

Paths ==
    { S_sse, S_mcp, <<"/","o","t","h","e","r">>, <<"/","x">> \o S_py,
      <<"/","x">> \o S_js, <<"/","x",".","t","x","t">>, <<"s","s","e">> }

RECURSIVE SlashRun(_)
SlashRun(n) == IF n = 0 THEN <<>> ELSE <<"/">> \o SlashRun(n - 1)

T_foo_py  == <<"f","o","o">> \o S_py
T_foo_txt == <<"f","o","o",".","t","x","t">>
T_h_sse   == S_http \o <<":","/","/","h">> \o S_sse
T_h_mcp   == S_http \o <<":","/","/","h">> \o S_mcp
T_h_other == S_http \o <<":","/","/","h","/","o","t","h","e","r">>

ExampleTargets ==
    { T_foo_py, T_foo_txt, T_h_sse, T_h_sse \o <<"/">>, T_h_mcp, T_h_other,
      <<" ">> \o T_h_sse, <<"1">> \o T_h_sse, <<":">> \o T_h_sse,
      T_h_sse \o <<"?","x","=","1">> }

Targets ==
    { s \o n \o p \o SlashRun(k) :
        s \in Schemes, n \in Netlocs, p \in Paths, k \in 0..MaxSlashes }
    \cup ExampleTargets

\* what follows the target on the command line
CliParams ==
    { <<>>, <<T_add>>, <<T_add, T_a1, T_b2>>, <<T_add, T_bad>>, << <<>> >> }

S_prog == <<"c","l","i","e","n","t",".","p","y">>

Argvs == { <<S_prog>> } \cup { <<S_prog, t>> \o a : t \in Targets, a \in CliParams }

----------------------------------------------------------------------------
(* _main (lines 115-129). *)

\* `if tool:`
Truthy(v) == v.t = "str" /\ v.s # <<>>

\* a plausible slip: a malformed parameter is noticed only after the client
\* has been constructed and connected
MainStart_parseLate ==
    /\ pc = "start"
    /\ IF Len(argv) < 2
       THEN /\ stdout' = Append(stdout, "usage")
            /\ status' = "exit 1"
            /\ pc' = "exited"
            /\ UNCHANGED <<target, tool, params, client>>
       ELSE LET r == _parse_cli_params(SubSeq(argv, 3, Len(argv)))
            IN  /\ target' = argv[2]
                /\ stdout' = stdout
                /\ status' = status
                /\ pc' = "try"
                /\ client' = TRUE
                /\ tool' = r.tool
                /\ params' = r.params
    /\ UNCHANGED <<argv, exit_stack, session, cpc, err, log, open, nres,
                   cleanups, connected, nops, harnessVars>>

\* lines 116-123: the usage check, the parse of sys.argv[2:], MCPClient()
MainStart ==
    /\ pc = "start"
    /\ IF Len(argv) < 2
       THEN /\ stdout' = Append(stdout, "usage")
            /\ status' = "exit 1"
            /\ pc' = "exited"
            /\ UNCHANGED <<target, tool, params, client>>
       ELSE LET r == _parse_cli_params(SubSeq(argv, 3, Len(argv)))
            IN  /\ target' = argv[2]
                /\ stdout' = stdout
                /\ IF r.kind = "SystemExit"
                   THEN /\ status' = "exit 1: Bad parameter"
                        /\ pc' = "exited"
                        /\ UNCHANGED <<tool, params, client>>
                   ELSE /\ status' = status
                        /\ pc' = "try"
                        /\ client' = TRUE
                        /\ tool' = r.tool
                        /\ params' = r.params
    /\ UNCHANGED <<argv, exit_stack, session, cpc, err, log, open, nres,
                   cleanups, connected, nops, harnessVars>>

\* line 125: await client.connect(target)
MainConnect ==
    /\ pc = "try"
    /\ connect(target)
    /\ pc' = "connect"
    /\ UNCHANGED <<argv, target, tool, params, status, client, harnessVars>>

\* lines 126-127: connect has returned or raised; `if tool:` call_tool
MainCall ==
    /\ pc = "connect"
    /\ cpc = "idle"
    /\ IF err = "none" /\ Truthy(tool)
       THEN /\ call_tool(tool, params)
            /\ pc' = "call"
       ELSE /\ pc' = "finally"
            /\ UNCHANGED clientVars
    /\ UNCHANGED <<argv, target, tool, params, status, client, harnessVars>>

\* line 127 has returned or raised: control reaches the finally clause
MainCalled ==
    /\ pc = "call"
    /\ cpc = "idle"
    /\ pc' = "finally"
    /\ UNCHANGED <<argv, target, tool, params, status, client, clientVars, harnessVars>>

\* a plausible slip: cleanup after the try block instead of in a finally
MainFinally_noFinally ==
    /\ pc = "finally"
    /\ pc' = "exited"
    /\ IF err = "none"
       THEN \E fails \in BOOLEAN :
               /\ (fails => exit_stack # <<>>)
               /\ cleanup(fails, err)
       ELSE UNCHANGED clientVars
    /\ status' = IF err' = "none" THEN "exit 0" ELSE "exit 1: " \o err'
    /\ UNCHANGED <<argv, target, tool, params, client, harnessVars>>

\* lines 128-129: finally: await client.cleanup(); then asyncio.run returns or
\* re-raises and the process exits
MainFinally ==
    /\ pc = "finally"
    /\ pc' = "exited"
    /\ \E fails \in BOOLEAN :
          /\ (fails => exit_stack # <<>>)
          /\ cleanup(fails, err)
    /\ status' = IF err' = "none" THEN "exit 0" ELSE "exit 1: " \o err'
    /\ UNCHANGED <<argv, target, tool, params, client, harnessVars>>

InitCli ==
    /\ argv \in Argvs
    /\ pc = "start"
    /\ target = <<>>
    /\ tool = PyNone
    /\ params = <<>>
    /\ status = "running"
    /\ client = FALSE
    /\ ClientInit
    /\ HarnessIdle

NextCli ==
    \/ MainStart
    \/ MainConnect
    \/ AwaitOpen
    \/ AwaitSession
    \/ AwaitInitialize
    \/ AwaitListTools
    \/ MainCall
    \/ AwaitCallTool
    \/ MainCalled
    \/ MainFinally

\* one run of the command line client
SpecCli == InitCli /\ [][NextCli]_vars

----------------------------------------------------------------------------
(* A caller of the MCPClient class: any sequence of at most MaxOps calls of  *)
(* connect, call_tool and cleanup on one instance, each awaited before the   *)
(* next is made, an exception of one caught before the next.                 *)

ApiTargets == { T_foo_py, T_foo_txt, T_h_sse, T_h_mcp, T_h_other }

ApiConnect ==
    /\ nops < MaxOps
    /\ \E t \in ApiTargets : connect(t)
    /\ UNCHANGED <<mainVars, harnessVars>>

ApiCallTool ==
    /\ nops < MaxOps
    /\ call_tool(PyStr(T_add), <<>>)
    /\ UNCHANGED <<mainVars, harnessVars>>

ApiCleanup ==
    /\ nops < MaxOps
    /\ \E fails \in BOOLEAN :
          /\ (fails => exit_stack # <<>>)
          /\ cleanup(fails, "none")
    /\ UNCHANGED <<mainVars, harnessVars>>

InitClient ==
    /\ MainIdle
    /\ ClientInit
    /\ HarnessIdle

NextClient ==
    \/ ApiConnect
    \/ AwaitOpen
    \/ AwaitSession
    \/ AwaitInitialize
    \/ AwaitListTools
    \/ ApiCallTool
    \/ AwaitCallTool
    \/ ApiCleanup

\* one MCPClient instance under an arbitrary caller
SpecClient == InitClient /\ [][NextClient]_vars

----------------------------------------------------------------------------
(* Properties of one MCPClient instance under an arbitrary caller            *)
(* (SpecClient).                                                             *)

Opened(kind) == {r \in open : r.kind = kind}

ToolCallsSent == {i \in DOMAIN log : log[i].op = "call_tool"}

\* C1: while no connect has completed successfully (none was called, or each
\* one so far failed at the transport, at the session, at the handshake or at
\* the tool listing), a call_tool raises the not-initialized error and no
\* tool-call request is sent.
C1_NoToolCallBeforeConnect ==
    ~connected => ToolCallsSent = {}

\* C3: after any sequence of connect, call_tool and cleanup, at most one
\* session and at most one transport are open.
C3_AtMostOneSessionAndTransport ==
    /\ Cardinality(Opened("session")) <= 1
    /\ Cardinality(Opened("transport")) <= 1

----------------------------------------------------------------------------
(* Properties of one run of the command line client (SpecCli). *)

LastLog == log[Len(log)]

\* connect has been called in this run
ConnectReached == pc \in {"connect", "call", "finally", "exited"} /\ client

\* C2: in a run that reaches the connect step cleanup is invoked exactly once,
\* whether connect and the call succeeded, connect failed, or the call failed;
\* it is invoked only on the way out, and never twice.
C2_CleanupExactlyOnce ==
    /\ cleanups <= 1
    /\ (pc # "exited" => cleanups = 0)
    /\ (pc = "exited" /\ ConnectReached => cleanups = 1)

\* a run whose tool call failed has exited, cleanup invoked once
C2_Witness ==
    /\ pc = "exited"
    /\ cleanups = 1
    /\ log # <<>>
    /\ LastLog.op = "call_tool"
    /\ LastLog.res = "fail"

\* C4: when the process exits, every transport and session that was opened
\* has been closed and nothing is left on the exit stack, whether the run
\* completed, raised at a later step, or was interrupted.
C4_AllClosedAtExit ==
    pc = "exited" => (open = {} /\ exit_stack = <<>>)

\* a run interrupted during the tool listing, with a transport and a session
\* open, has exited
C4_Witness ==
    /\ pc = "exited"
    /\ nres = 2
    /\ open = {}
    /\ err = E_cancel
    /\ LastLog.op = "list_tools"

StepOrder == <<"open", "initialize", "list_tools", "call_tool">>

\* C5: the transport operations of a run are a prefix of open, initialize,
\* list tools, call tool, each attempted at most once; only the last one can
\* be outstanding or failed, every earlier one completed successfully.
C5_StrictSequence ==
    /\ Len(log) <= Len(StepOrder)
    /\ \A i \in DOMAIN log : log[i].op = StepOrder[i]
    /\ \A i \in DOMAIN log : i < Len(log) => log[i].res = "ok"
    /\ Cardinality({i \in DOMAIN log : log[i].res = "pending"}) <= 1
    /\ (log # <<>> /\ LastLog.res = "pending" => cpc # "idle")

\* the handshake of a run failed: nothing was attempted after it
C5_Witness ==
    /\ pc = "exited"
    /\ Len(log) = 2
    /\ LastLog.op = "initialize"
    /\ LastLog.res = "fail"

\* the target is an http or https URL: after leading spaces, the word http or
\* https in any case, then a colon
IsHttpUrl(t) ==
    \E n \in 0..Len(t), w \in {S_http, S_https} :
        /\ \A i \in 1..n : t[i] = " "
        /\ Len(t) > n + Len(w)
        /\ SpellsIgnoringCase(SubSeq(t, n + 1, n + Len(w)), w)
        /\ t[n + Len(w) + 1] = ":"

\* t is u followed by some number of slashes, u ending with the suffix
EndsIgnoringSlashes(t, suffix) ==
    \E n \in 0..Len(t) :
        /\ \A i \in (Len(t) - n + 1)..Len(t) : t[i] = "/"
        /\ endswith(SubSeq(t, 1, Len(t) - n), suffix)

\* t ends with the suffix, or with the suffix and one slash
EndsIgnoringOneSlash(t, suffix) ==
    endswith(t, suffix) \/ endswith(t, suffix \o <<"/">>)

\* what connect did with the target: the transport it went on to open, or the
\* error it raised before opening any
Selected == IF log # <<>> THEN log[1].kind ELSE err

InvalidTarget == {E_remote, E_target}

NothingOpened == log = <<>> /\ nres = 0 /\ open = {}

\* C6 as written, for the targets the URL parser accepts: an http(s) URL gives
\* SSE when it ends with /sse ignoring a trailing slash, streamable HTTP when
\* it ends with /mcp, else the invalid-target error; any other string gives
\* stdio when it ends with .py or .js, else the invalid-target error, and then
\* nothing is opened.
C6_AsWritten ==
    (ConnectReached /\ ~UrlRaises(target)) =>
        IF IsHttpUrl(target)
        THEN IF EndsIgnoringOneSlash(target, S_sse) THEN Selected = "sse"
             ELSE IF endswith(target, S_mcp) THEN Selected = "streamable"
             ELSE Selected \in InvalidTarget /\ NothingOpened
        ELSE IF endswith(target, S_py) \/ endswith(target, S_js)
             THEN Selected \in {"stdio:python", "stdio:node"}
             ELSE Selected \in InvalidTarget /\ NothingOpened

\* C6, amended: for a target the URL parser accepts, an http(s) URL gives SSE
\* when it ends with /sse once all its trailing slashes are dropped,
\* streamable HTTP when it ends with /mcp once all its trailing slashes are
\* dropped, else the invalid-target error; any other string gives stdio when
\* it ends with .py or .js, else the invalid-target error.  A target the
\* parser rejects raises the parser's error.  Nothing is opened when an error
\* is raised.
C6_Classification ==
    ConnectReached =>
        IF UrlRaises(target) THEN Selected = E_url /\ NothingOpened
        ELSE IF IsHttpUrl(target)
        THEN IF EndsIgnoringSlashes(target, S_sse) THEN Selected = "sse"
             ELSE IF EndsIgnoringSlashes(target, S_mcp) THEN Selected = "streamable"
             ELSE Selected = E_remote /\ NothingOpened
        ELSE IF endswith(target, S_py) \/ endswith(target, S_js)
             THEN Selected \in {"stdio:python", "stdio:node"}
             ELSE Selected = E_target /\ NothingOpened

\* connect was given http://h/mcp// and went on to open streamable HTTP
C6_Witness ==
    /\ ConnectReached
    /\ target = T_h_mcp \o <<"/", "/">>
    /\ Selected = "streamable"

\* the result line the extraction policy gives a result object
ResultLine(form, has_text) ==
    IF form = "content[0].text" THEN "Result: content[0].text"
    ELSE IF has_text THEN "Result: text"
    ELSE "Result object"

\* C9: when the tool call has returned a result, exactly one result line has
\* been printed after the summary line and no error is raised: the first
\* content item's text, else the direct text field, else the raw object (so
\* too for a content list whose first item has no text).
C9_OneResultLineNoError ==
    (pc = "call" /\ cpc = "idle" /\ LastLog.res = "ok") =>
        /\ err = "none"
        /\ Len(stdout) >= 2
        /\ stdout[Len(stdout) - 1] = "Calling"
        /\ stdout[Len(stdout)] = ResultLine(LastLog.kind, LastLog.flag)

\* the command line is a usage error: no target, or a parameter without "="
UsageError ==
    \/ Len(argv) < 2
    \/ \E i \in 4..Len(argv) : ~HasEquals(argv[i])

\* C10: on a usage error the process exits with a failure status before a
\* client is constructed: nothing is opened, no request is sent, and cleanup
\* is not invoked.
C10_UsageErrorBeforeResources ==
    UsageError =>
        /\ ~client
        /\ nops = 0
        /\ NothingOpened
        /\ exit_stack = <<>>
        /\ cleanups = 0
        /\ pc \in {"start", "exited"}
        /\ (pc = "exited" => status \in {"exit 1", "exit 1: Bad parameter"})

\* the run of ["foo.py", "add", "bad"] has exited on the bad parameter
C10_Witness ==
    /\ argv = <<S_prog, T_foo_py, T_add, T_bad>>
    /\ pc = "exited"
    /\ status = "exit 1: Bad parameter"
    /\ ~client

====
